---- MODULE Spec2Model ----
(***************************************************************************)
(* Model of the Telegram YouTube downloader bot in src/main.py.            *)
(*                                                                         *)
(* The application is built without concurrent_updates (main, line 324),   *)
(* so the dispatcher awaits one handler to completion before it takes the  *)
(* next update: pc = "idle" is the dispatcher waiting, any other pc is the *)
(* position of the one handler that is running; what arrives meanwhile     *)
(* waits in queue (specification SpecQueued).  The collaborators (the      *)
(* extraction library, the transcoder, the upload, the clock) are chosen   *)
(* nondeterministically at the step that calls them.  Edits of a status    *)
(* text are taken to succeed; update_progress_message swallows their       *)
(* failures anyway (lines 103-107).                                        *)
(***************************************************************************)
EXTENDS Integers, Sequences, FiniteSets, TLC

\* ------------------------------------------------------------------ bounds
\* MaxMsgs: the messages of all chats together (every link adds one).
\* MaxTime: the last second of the clock.
\* MaxQueue: the updates that can wait for the dispatcher.
MaxMsgs == 2
MaxTime == 1
MaxQueue == 1

\* The user ids of the model.
Users == {1, 2}

\* ------------------------------------------------- the extraction library
\* The links a user can submit: two videos, a link whose handle can be
\* constructed but whose metadata cannot be fetched, and a malformed link.
Urls == {"a", "b", "dead", "bad"}

NoHandle == [id |-> 0, vid |-> "None"]

\* One selectable encoding: res = 0 stands for resolution None (audio only).
Desc(itag, res, subtype, video, audio) ==
    [itag |-> itag, res |-> res, subtype |-> subtype, video |-> video, audio |-> audio]

NoDesc == Desc(0, 0, "None", FALSE, FALSE)

\* The encodings the site offers for each video, in the order it lists them.
Catalog(vid) ==
    CASE vid = "a" -> << Desc(18, 360, "mp4", TRUE, TRUE),
                         Desc(247, 720, "webm", TRUE, FALSE),
                         Desc(137, 1080, "mp4", TRUE, FALSE),
                         Desc(140, 0, "mp4", FALSE, TRUE) >>
      [] vid = "b" -> << Desc(136, 720, "mp4", TRUE, FALSE),
                         Desc(251, 0, "webm", FALSE, TRUE) >>
      [] OTHER -> << >>

\* Titles as character sequences; sanitize_filename strips the unsafe ones.
Title(vid) ==
    CASE vid = "a" -> << "A", ":", "?" >>
      [] vid = "b" -> << "B" >>
      [] OTHER -> << >>

Unsafe == {"<", ">", ":", "\"", "/", "\\", "|", "?", "*"}

IsUnsafe(c) == c \in Unsafe

sanitize_filename(filename) == SelectSeq(filename, LAMBDA c : ~IsUnsafe(c))

\* A Stream object: the handle it was obtained from and its descriptor.
NoStream == [h |-> NoHandle, d |-> NoDesc]

is_progressive(s) == s.d.video /\ s.d.audio

\* Mutant: the constructor accepts every link.
ConstructFails_never(url) == FALSE

\* YouTube(url) raises for a malformed link (line 145).
ConstructFails(url) == url = "bad"

\* Reading title/length/views/streams of a handle raises when the site
\* cannot be reached for it.
Unreachable(h) == h.vid = "dead"

\* yt.streams
Streams(h) == [i \in 1..Len(Catalog(h.vid)) |-> [h |-> h, d |-> Catalog(h.vid)[i]]]

FilterExt(q, ext) == SelectSeq(q, LAMBDA s : s.d.subtype = ext)

FilterOnlyAudio(q) == SelectSeq(q, LAMBDA s : s.d.audio /\ ~s.d.video)

\* order_by("resolution"): drops the streams without a resolution, then a
\* stable ascending sort.
RECURSIVE InsertSorted(_, _)
InsertSorted(sorted, s) ==
    IF sorted = << >> THEN << s >>
    ELSE IF s.d.res < Head(sorted).d.res THEN << s >> \o sorted
    ELSE << Head(sorted) >> \o InsertSorted(Tail(sorted), s)

RECURSIVE SortAsc(_)
SortAsc(q) ==
    IF q = << >> THEN << >>
    ELSE InsertSorted(SortAsc(SubSeq(q, 1, Len(q) - 1)), q[Len(q)])

OrderByResolution(q) == SortAsc(SelectSeq(q, LAMBDA s : s.d.res # 0))

\* desc(): the list reversed.
Reverse(q) == [i \in 1..Len(q) |-> q[Len(q) + 1 - i]]

\* yt.streams.filter(file_extension="mp4").order_by("resolution").desc()
QualityList(h) == Reverse(OrderByResolution(FilterExt(Streams(h), "mp4")))

\* yt.streams.filter(only_audio=True, file_extension="mp4").first()
FirstAudio(h) ==
    LET q == FilterExt(FilterOnlyAudio(Streams(h)), "mp4")
    IN  IF q = << >> THEN NoStream ELSE Head(q)

\* --------------------------------------------------------------- sessions
UserState == [yt |-> NoHandle, selected_stream |-> NoStream, url |-> "None"]

\* ------------------------------------------------------------------ files
NoPath == [prefix |-> "None", u |-> 0, t |-> 0, title |-> << >>, ext |-> "None"]

\* downloads/<prefix>video_<user_id>_<int(time.time())>.mp4
VideoFile(prefix, u, t) ==
    [prefix |-> prefix, u |-> u, t |-> t, title |-> << >>, ext |-> "mp4"]

\* downloads/audio_<title>.mp4 and downloads/<title>.mp3
TitleFile(prefix, title, ext) ==
    [prefix |-> prefix, u |-> 0, t |-> 0, title |-> title, ext |-> ext]

NoLocals ==
    [download_path |-> NoPath, video_path |-> NoPath, audio_path |-> NoPath,
     mp3_path |-> NoPath, t |-> 0, audio_stream |-> NoStream,
     video_stream |-> NoStream]

\* --------------------------------------------------------------- messages
\* A message of a chat: the inline keyboard it shows and, for a quality
\* list, the streams its buttons res_0, res_1, ... were rendered from.
Msg(kb, list) == [kb |-> kb, list |-> list]

VARIABLES
    user_states,   \* the session map: user id -> UserState
    chats,         \* per user, the bot's messages in the chat
    files,         \* the paths that exist in downloads/
    now,           \* int(time.time()) when it was last read
    pc,            \* position of the running handler, "idle" if none
    ev,            \* the update being handled: user, message, callback data
    loc,           \* the running download operation's local paths
    last,          \* what the running (or last) handler did for its update
    queue,         \* the updates waiting for the dispatcher, oldest first
    in_flight      \* the download operations started and not yet returned

vars == << user_states, chats, files, now, pc, ev, loc, last, queue, in_flight >>

\* -------------------------------------------------------- the dispatcher
\* An update as it waits in the application's update queue.
Update(u, m, data, index, url) ==
    [u |-> u, m |-> m, data |-> data, index |-> index, url |-> url]

QueuedLinks(q) == Cardinality({ k \in 1..Len(q) : q[k].data = "link" })

\* A download operation in flight: the user and the status message.
Op(u, m) == [u |-> u, m |-> m]

\* Mutant: the application is built with concurrent_updates(True).
DispatcherFree_concurrent == TRUE

\* Mutant: the handlers are registered with block=False, so that the next
\* update is handled while an operation awaits its upload.
DispatcherFree_nonblocking == pc \in {"idle", "v_upload", "a_upload"}

\* The application is built without concurrent_updates and the handlers
\* block (lines 323-329): the next update is taken when the handler of the
\* previous one has returned.
DispatcherFree == pc = "idle"

\* ------------------------------------------------------------------ ghost
NoEvent == [u |-> 0, m |-> 0, data |-> "None", index |-> 0]

Event(u, m, data, index) == [u |-> u, m |-> m, data |-> data, index |-> index]

\* The record of one handler run: the session it found, the texts it showed,
\* the collaborators it called, the files it wrote and what it uploaded.
\* delivery: what a sent video was made of and what its caption says.
\* overlap: for an update that arrived while an operation was in flight and
\* waited for it, the files that operation wrote.
NoDelivery == [video |-> NoStream, audio |-> NoStream, title |-> << >>, res |-> 0]

NewLast(pre) ==
    [pre |-> pre, raised |-> FALSE, escaped |-> FALSE, text |-> "None",
     warned |-> FALSE, extracted |-> FALSE, probe |-> "None", ran |-> {},
     made |-> {}, tried |-> NoPath, sent |-> NoPath, shown |-> << >>,
     selected |-> FALSE, delivery |-> NoDelivery,
     overlap |-> IF queue # << >> THEN last.made \cup last.overlap ELSE {}]

\* ------------------------------------------------------------ session map
\* Mutant: the session of a new user is stored in a fresh map.
get_user_state_fresh_map(states, user_id) ==
    IF user_id \in DOMAIN states THEN states
    ELSE [x \in {user_id} |-> UserState]

\* get_user_state: the session of user_id, created on first contact.
get_user_state(states, user_id) ==
    IF user_id \in DOMAIN states THEN states
    ELSE [x \in DOMAIN states \cup {user_id} |->
             IF x = user_id THEN UserState ELSE states[x]]

Session(u) == get_user_state(user_states, u)[u]

\* The chat as a previous run of the process may have left it: sessions are
\* lost on restart, the messages and their buttons are not.
OldHandle == [id |-> 0, vid |-> "a"]

StaleChats ==
    { << >>, << Msg("options", << >>) >>, << Msg("quality", QualityList(OldHandle)) >> }

\* The number of messages in all chats together.
RECURSIVE Total(_, _)
Total(c, us) ==
    IF us = {} THEN 0
    ELSE LET u == CHOOSE x \in us : TRUE IN Len(c[u]) + Total(c, us \ {u})

Init ==
    /\ user_states = [x \in {} |-> UserState]
    /\ chats \in [Users -> StaleChats]
    /\ Total(chats, Users) <= MaxMsgs
    /\ files = {}
    /\ now = 0
    /\ pc = "idle"
    /\ ev = NoEvent
    /\ loc = NoLocals
    /\ queue = << >>
    /\ last = NewLast(UserState)
    /\ in_flight = {}

\* The buttons a message shows: "video"/"audio" under the option prompt,
\* res_<i> and "back" under a quality list.
ButtonShown(msg, data) ==
    CASE data \in {"video", "audio"} -> msg.kb = "options"
      [] data \in {"back", "res"} -> msg.kb = "quality"
      [] OTHER -> FALSE

\* A callback query: the user taps a button some message shows.
Tapped(u, m, data) ==
    /\ m \in 1..Len(chats[u])
    /\ ButtonShown(chats[u][m], data)

\* What a user can send at this moment: a link, or the tap of a button.
Offers(upd) ==
    IF upd.data = "link"
    THEN /\ upd.m = 0 /\ upd.index = 0
         /\ Total(chats, Users) + QueuedLinks(queue) < MaxMsgs
    ELSE /\ upd.url = "None"
         /\ Tapped(upd.u, upd.m, upd.data)
         /\ IF upd.data = "res" THEN upd.index < Len(chats[upd.u][upd.m].list)
                                ELSE upd.index = 0

\* The dispatcher takes the next update: the oldest waiting one, or with
\* nothing waiting the one that arrives now.
Takes(upd) ==
    /\ DispatcherFree
    /\ IF queue = << >> THEN Offers(upd) ELSE upd = Head(queue)

Dequeue == queue' = IF queue = << >> THEN queue ELSE Tail(queue)

\* An update arrives while a handler is running: it waits in the queue.
Arrive(upd) ==
    /\ pc # "idle"
    /\ Len(queue) < MaxQueue
    /\ Offers(upd)
    /\ queue' = Append(queue, upd)
    /\ UNCHANGED << user_states, chats, files, now, pc, ev, loc, last, in_flight >>

\* show_download_options: the option prompt with its two buttons, or the
\* error text when reading the handle's metadata raises.
show_download_options(yt) ==
    IF yt = NoHandle \/ Unreachable(yt)
    THEN [text |-> "error", kb |-> "none", raised |-> TRUE]
    ELSE [text |-> "prompt", kb |-> "options", raised |-> FALSE]

\* handle_youtube_link for a text message: store the url, reply with a new
\* status message, construct the handle and render the option prompt.
handle_youtube_link(u, url) ==
    /\ Takes(Update(u, 0, "link", 0, url))
    /\ LET st == get_user_state(user_states, u)
           m == Len(chats[u]) + 1
           h == [id |-> m, vid |-> url]
           r == show_download_options(h)
       IN  /\ ev' = Event(u, m, "link", 0)
           /\ IF ConstructFails(url)
              THEN /\ user_states' = [st EXCEPT ![u].url = url]
                   /\ chats' = [chats EXCEPT ![u] = Append(@, Msg("none", << >>))]
                   /\ last' = [NewLast(Session(u)) EXCEPT
                                  !.extracted = TRUE, !.raised = TRUE, !.text = "error"]
              ELSE /\ user_states' = [st EXCEPT ![u].url = url, ![u].yt = h]
                   /\ chats' = [chats EXCEPT ![u] = Append(@, Msg(r.kb, << >>))]
                   /\ last' = [NewLast(Session(u)) EXCEPT
                                  !.extracted = TRUE, !.raised = r.raised, !.text = r.text]
    /\ Dequeue
    /\ UNCHANGED << files, now, pc, loc, in_flight >>

\* handle_download_option, query.data == "video": render the quality list.
\* Nothing catches what yt.streams raises here.
choose_video(u, m) ==
    /\ Takes(Update(u, m, "video", 0, "None"))
    /\ LET yt == Session(u).yt
       IN  /\ user_states' = get_user_state(user_states, u)
           /\ ev' = Event(u, m, "video", 0)
           /\ IF yt = NoHandle \/ Unreachable(yt)
              THEN /\ chats' = chats
                   /\ last' = [NewLast(Session(u)) EXCEPT !.raised = TRUE, !.escaped = TRUE]
              ELSE IF QualityList(yt) # << >>
              THEN /\ chats' = [chats EXCEPT ![u][m] = Msg("quality", QualityList(yt))]
                   /\ last' = [NewLast(Session(u)) EXCEPT !.text = "quality"]
              ELSE /\ chats' = [chats EXCEPT ![u][m] = Msg("none", << >>)]
                   /\ last' = [NewLast(Session(u)) EXCEPT !.text = "nostreams"]
    /\ Dequeue
    /\ UNCHANGED << files, now, pc, loc, in_flight >>

\* Mutant: "back" goes through handle_youtube_link's callback branch (lines
\* 136-139) and extracts the stored url again.
choose_back_reextracts(u, m) ==
    /\ Takes(Update(u, m, "back", 0, "None"))
    /\ LET st == get_user_state(user_states, u)
           url == Session(u).url
           h == [id |-> m, vid |-> url]
           r == show_download_options(h)
       IN  /\ ev' = Event(u, m, "back", 0)
           /\ IF ConstructFails(url) \/ url = "None"
              THEN /\ user_states' = st
                   /\ chats' = [chats EXCEPT ![u][m] = Msg("none", << >>)]
                   /\ last' = [NewLast(Session(u)) EXCEPT
                                  !.extracted = TRUE, !.raised = TRUE, !.text = "error"]
              ELSE /\ user_states' = [st EXCEPT ![u].yt = h]
                   /\ chats' = [chats EXCEPT ![u][m] = Msg(r.kb, << >>)]
                   /\ last' = [NewLast(Session(u)) EXCEPT
                                  !.extracted = TRUE, !.raised = r.raised, !.text = r.text]
    /\ Dequeue
    /\ UNCHANGED << files, now, pc, loc, in_flight >>

\* handle_download_option, query.data == "back".
choose_back(u, m) ==
    /\ Takes(Update(u, m, "back", 0, "None"))
    /\ LET r == show_download_options(Session(u).yt)
       IN  /\ user_states' = get_user_state(user_states, u)
           /\ ev' = Event(u, m, "back", 0)
           /\ chats' = [chats EXCEPT ![u][m] = Msg(r.kb, << >>)]
           /\ last' = [NewLast(Session(u)) EXCEPT !.raised = r.raised, !.text = r.text]
    /\ Dequeue
    /\ UNCHANGED << files, now, pc, loc, in_flight >>

\* ---------------------------------------------------------- the pipeline
\* stream.download(...) into path p: the file is written and the path is
\* returned, or the call raises, having written part of the file or nothing.
DownloadOutcomes == {"ok", "partial", "nothing"}

Written(p, outcome) == IF outcome = "nothing" THEN {} ELSE {p}

\* Mutant: an index past the end is clamped to the last stream.
Subscript_clamped(streams, stream_index) ==
    IF streams = << >> THEN NoStream
    ELSE IF stream_index < Len(streams) THEN streams[stream_index + 1]
    ELSE streams[Len(streams)]

\* streams[stream_index]: NoStream stands for the IndexError.
Subscript(streams, stream_index) ==
    IF stream_index < Len(streams) THEN streams[stream_index + 1] ELSE NoStream

\* Mutant: the except clause only logs the error.
Failed_logged_only(rec) == [rec EXCEPT !.raised = TRUE]

\* The except clause of a download operation (lines 264-266, 313-315): the
\* "Failed" text, then the finally clause.
Failed(rec) == [rec EXCEPT !.raised = TRUE, !.text = "failed"]

\* handle_resolution_selection for res_<i>: select the i-th stream of the
\* quality list derived from the session's handle now, then download_video
\* up to its first download.  t is what time.time() returns for the file
\* name: the clock has not gone back since it was last read.
handle_resolution_selection(u, m, i, t) ==
    /\ Takes(Update(u, m, "res", i, "None"))
    /\ now <= t
    /\ now' = t
    /\ LET st == get_user_state(user_states, u)
           yt == Session(u).yt
           streams == IF yt = NoHandle \/ Unreachable(yt) THEN << >> ELSE QualityList(yt)
           sel == Subscript(streams, i)
           fresh == [NewLast(Session(u)) EXCEPT !.shown = chats[u][m].list]
       IN  /\ ev' = Event(u, m, "res", i)
           /\ IF sel = NoStream
              THEN \* AttributeError, "No streams available" or IndexError
                   /\ user_states' = st
                   /\ chats' = [chats EXCEPT ![u][m] = Msg("none", << >>)]
                   /\ last' = [fresh EXCEPT !.raised = TRUE, !.text = "error"]
                   /\ UNCHANGED << pc, loc, in_flight >>
              ELSE /\ user_states' = [st EXCEPT ![u].selected_stream = sel]
                   /\ chats' = [chats EXCEPT ![u][m] = Msg("none", << >>)]
                   /\ in_flight' = in_flight \cup {Op(u, m)}
                   /\ IF is_progressive(sel)
                      THEN /\ pc' = "v_prog"
                           /\ loc' = [NoLocals EXCEPT !.t = t,
                                         !.download_path = VideoFile("", u, t)]
                           /\ last' = [fresh EXCEPT !.text = "progress", !.selected = TRUE]
                      ELSE IF FirstAudio(yt) = NoStream
                      THEN /\ pc' = "v_finally"
                           /\ loc' = [NoLocals EXCEPT !.t = t,
                                         !.download_path = VideoFile("", u, t)]
                           /\ last' = Failed([fresh EXCEPT !.selected = TRUE])
                      ELSE /\ pc' = "v_video"
                           /\ loc' = [NoLocals EXCEPT !.t = t,
                                         !.download_path = VideoFile("", u, t),
                                         !.video_stream = sel,
                                         !.audio_stream = FirstAudio(yt)]
                           /\ last' = [fresh EXCEPT !.text = "progress", !.selected = TRUE]
    /\ Dequeue
    /\ UNCHANGED files

\* download_video, progressive branch (lines 217-222).
v_prog(outcome) ==
    /\ pc = "v_prog"
    /\ LET p == VideoFile("", ev.u, loc.t)
           rec == [last EXCEPT !.ran = @ \cup {"download"},
                               !.made = @ \cup Written(p, outcome)]
       IN  /\ files' = files \cup Written(p, outcome)
           /\ IF outcome = "ok"
              THEN /\ loc' = [loc EXCEPT !.download_path = p,
                                          !.video_stream = Session(ev.u).selected_stream]
                   /\ last' = rec
                   /\ pc' = "v_upload"
              ELSE /\ loc' = loc
                   /\ last' = Failed(rec)
                   /\ pc' = "v_finally"
    /\ UNCHANGED << user_states, chats, now, ev, queue, in_flight >>

\* download_video, the video part (lines 229-234).
v_video(outcome) ==
    /\ pc = "v_video"
    /\ LET p == VideoFile("video_", ev.u, loc.t)
           rec == [last EXCEPT !.ran = @ \cup {"download"},
                               !.made = @ \cup Written(p, outcome)]
       IN  /\ files' = files \cup Written(p, outcome)
           /\ IF outcome = "ok"
              THEN /\ loc' = [loc EXCEPT !.video_path = p]
                   /\ last' = rec
                   /\ pc' = "v_audio"
              ELSE /\ loc' = loc
                   /\ last' = Failed(rec)
                   /\ pc' = "v_finally"
    /\ UNCHANGED << user_states, chats, now, ev, queue, in_flight >>

\* download_video, the audio part (lines 236-241).
v_audio(outcome) ==
    /\ pc = "v_audio"
    /\ LET p == VideoFile("audio_", ev.u, loc.t)
           rec == [last EXCEPT !.ran = @ \cup {"download"},
                               !.made = @ \cup Written(p, outcome)]
       IN  /\ files' = files \cup Written(p, outcome)
           /\ IF outcome = "ok"
              THEN /\ loc' = [loc EXCEPT !.audio_path = p]
                   /\ last' = rec
                   /\ pc' = "v_probe"
              ELSE /\ loc' = loc
                   /\ last' = Failed(rec)
                   /\ pc' = "v_finally"
    /\ UNCHANGED << user_states, chats, now, ev, queue, in_flight >>

\* Mutant: the merge is skipped although the transcoder answered.
VideoProbe_skips_merge(present, l, u) ==
    IF present
    THEN [pc |-> "v_upload", warned |-> FALSE, download_path |-> l.video_path]
    ELSE [pc |-> "v_upload", warned |-> TRUE, download_path |-> l.video_path]

\* Mutant: a missing transcoder ends the operation.
VideoProbe_absent_fails(present, l, u) ==
    IF present
    THEN [pc |-> "v_merge", warned |-> FALSE,
          download_path |-> VideoFile("final_", u, l.t)]
    ELSE [pc |-> "v_finally", warned |-> FALSE, download_path |-> l.download_path]

\* What download_video does with the answer of `ffmpeg -version` (lines
\* 244-256): go on to the merge into final_<filename>, or warn and deliver
\* the video part.
VideoProbe(present, l, u) ==
    IF present
    THEN [pc |-> "v_merge", warned |-> FALSE,
          download_path |-> VideoFile("final_", u, l.t)]
    ELSE [pc |-> "v_upload", warned |-> TRUE, download_path |-> l.video_path]

v_probe(present) ==
    /\ pc = "v_probe"
    /\ LET r == VideoProbe(present, loc, ev.u)
       IN  /\ pc' = r.pc
           /\ loc' = [loc EXCEPT !.download_path = r.download_path]
           /\ last' = [last EXCEPT !.ran = @ \cup {"probe"},
                                   !.probe = IF present THEN "present" ELSE "absent",
                                   !.warned = r.warned,
                                   !.text = IF r.warned THEN "warn" ELSE @]
    /\ UNCHANGED << user_states, chats, files, now, ev, queue, in_flight >>

\* The merge (lines 248-252): a non-zero return code raises.
v_merge(outcome) ==
    /\ pc = "v_merge"
    /\ LET p == loc.download_path
           rec == [last EXCEPT !.ran = @ \cup {"merge"},
                               !.made = @ \cup Written(p, outcome)]
       IN  /\ files' = files \cup Written(p, outcome)
           /\ IF outcome = "ok"
              THEN /\ last' = rec
                   /\ pc' = "v_upload"
              ELSE /\ last' = Failed(rec)
                   /\ pc' = "v_finally"
    /\ UNCHANGED << user_states, chats, now, ev, loc, queue, in_flight >>

\* The caption of send_video (line 261) is read from the session when the
\* upload starts.
Caption(st) == [title |-> Title(st.yt.vid), res |-> st.selected_stream.d.res]

\* open(download_path) and send_video (lines 257-263).
v_upload(ok) ==
    /\ pc = "v_upload"
    /\ IF loc.download_path \in files /\ ok
       THEN last' = [last EXCEPT !.ran = @ \cup {"upload"}, !.tried = loc.download_path,
                                 !.sent = loc.download_path, !.text = "complete",
                                 !.delivery =
                                     [video |-> loc.video_stream,
                                      audio |-> IF "merge" \in last.ran
                                                THEN loc.audio_stream ELSE NoStream,
                                      title |-> Caption(Session(ev.u)).title,
                                      res |-> Caption(Session(ev.u)).res]]
       ELSE last' = Failed([last EXCEPT !.ran = @ \cup {"upload"},
                                        !.tried = loc.download_path])
    /\ pc' = "v_finally"
    /\ UNCHANGED << user_states, chats, files, now, ev, loc, queue, in_flight >>

\* delete_file (lines 46-52): remove the file if it exists, else only warn.
delete_file(file_path, disk) ==
    IF file_path \in disk THEN disk \ {file_path} ELSE disk

\* os.remove: removes the file, or raises when there is none.
os_remove(path, disk) ==
    IF path \in disk THEN [disk |-> disk \ {path}, error |-> FALSE]
    ELSE [disk |-> disk, error |-> TRUE]

\* Mutant: the loop removes every path that is set, without os.path.exists.
ShouldRemove_unchecked(path, spare, disk) == path # NoPath /\ path # spare

\* The condition of a finally clause's loop (lines 269, 318): the path is
\* set, the file exists and, in download_audio, it is not audio_path.
ShouldRemove(path, spare, disk) == path # NoPath /\ path \in disk /\ path # spare

\* The loop of a finally clause over its list of paths, in order; an error
\* of os.remove ends it.
RECURSIVE RemoveEach(_, _, _)
RemoveEach(paths, spare, disk) ==
    IF paths = << >> THEN [disk |-> disk, error |-> FALSE]
    ELSE IF ShouldRemove(Head(paths), spare, disk)
    THEN LET r == os_remove(Head(paths), disk)
         IN  IF r.error THEN r ELSE RemoveEach(Tail(paths), spare, r.disk)
    ELSE RemoveEach(Tail(paths), spare, disk)

FinallyVideo(l, disk) ==
    RemoveEach(<< l.download_path, l.video_path, l.audio_path >>, NoPath, disk)

FinallyAudio(l, disk) ==
    RemoveEach(<< l.audio_path, l.mp3_path >>, l.audio_path, disk)

\* The paths a finally clause removes.
CleanupVideo(l, disk) == disk \ FinallyVideo(l, disk).disk

CleanupAudio(l, disk) == disk \ FinallyAudio(l, disk).disk

\* download_video's finally clause (lines 267-272); the handler returns.
v_finally ==
    /\ pc = "v_finally"
    /\ files' = files \ CleanupVideo(loc, files)
    /\ loc' = NoLocals
    /\ pc' = "idle"
    /\ in_flight' = in_flight \ {Op(ev.u, ev.m)}
    /\ UNCHANGED << user_states, chats, now, ev, last, queue >>

\* handle_download_option, query.data == "audio": download_audio up to its
\* download.
choose_audio(u, m) ==
    /\ Takes(Update(u, m, "audio", 0, "None"))
    /\ LET yt == Session(u).yt
           fresh == NewLast(Session(u))
       IN  /\ user_states' = get_user_state(user_states, u)
           /\ ev' = Event(u, m, "audio", 0)
           /\ chats' = [chats EXCEPT ![u][m] = Msg("none", << >>)]
           /\ IF yt = NoHandle \/ Unreachable(yt) \/ FirstAudio(yt) = NoStream
              THEN /\ pc' = "a_finally"
                   /\ loc' = NoLocals
                   /\ last' = Failed(fresh)
              ELSE /\ pc' = "a_download"
                   /\ loc' = [NoLocals EXCEPT !.audio_stream = FirstAudio(yt)]
                   /\ last' = [fresh EXCEPT !.text = "progress"]
    /\ in_flight' = in_flight \cup {Op(u, m)}
    /\ Dequeue
    /\ UNCHANGED << files, now >>

\* download_audio, the download and the two paths (lines 285-290).
a_download(outcome) ==
    /\ pc = "a_download"
    /\ LET p == TitleFile("audio_", sanitize_filename(Title(loc.audio_stream.h.vid)), "mp4")
           mp3 == TitleFile("", sanitize_filename(Title(Session(ev.u).yt.vid)), "mp3")
           rec == [last EXCEPT !.ran = @ \cup {"download"},
                               !.made = @ \cup Written(p, outcome)]
       IN  /\ files' = files \cup Written(p, outcome)
           /\ IF outcome = "ok"
              THEN /\ loc' = [loc EXCEPT !.audio_path = p, !.mp3_path = mp3]
                   /\ last' = rec
                   /\ pc' = "a_probe"
              ELSE /\ loc' = loc
                   /\ last' = Failed(rec)
                   /\ pc' = "a_finally"
    /\ UNCHANGED << user_states, chats, now, ev, queue, in_flight >>

\* What download_audio does with the answer of `ffmpeg -version` (lines
\* 293-301): convert, or warn and deliver the downloaded container.
AudioProbe(present, l) ==
    IF present
    THEN [pc |-> "a_convert", warned |-> FALSE, mp3_path |-> l.mp3_path]
    ELSE [pc |-> "a_upload", warned |-> TRUE, mp3_path |-> l.audio_path]

a_probe(present) ==
    /\ pc = "a_probe"
    /\ LET r == AudioProbe(present, loc)
       IN  /\ pc' = r.pc
           /\ loc' = [loc EXCEPT !.mp3_path = r.mp3_path]
           /\ last' = [last EXCEPT !.ran = @ \cup {"probe"},
                                   !.probe = IF present THEN "present" ELSE "absent",
                                   !.warned = r.warned,
                                   !.text = IF r.warned THEN "warn" ELSE @]
    /\ UNCHANGED << user_states, chats, files, now, ev, queue, in_flight >>

\* The conversion (line 297, check=True): its CalledProcessError is caught
\* by the same except clause as a missing transcoder (lines 298-301).
a_convert(outcome) ==
    /\ pc = "a_convert"
    /\ LET p == loc.mp3_path
           rec == [last EXCEPT !.ran = @ \cup {"convert"},
                               !.made = @ \cup Written(p, outcome)]
       IN  /\ files' = files \cup Written(p, outcome)
           /\ IF outcome = "ok"
              THEN /\ last' = rec
                   /\ loc' = loc
              ELSE /\ last' = [rec EXCEPT !.raised = TRUE, !.warned = TRUE, !.text = "warn"]
                   /\ loc' = [loc EXCEPT !.mp3_path = loc.audio_path]
           /\ pc' = "a_upload"
    /\ UNCHANGED << user_states, chats, now, ev, queue, in_flight >>

\* open(mp3_path) and send_audio (lines 303-312).
a_upload(ok) ==
    /\ pc = "a_upload"
    /\ IF loc.mp3_path \in files /\ ok
       THEN last' = [last EXCEPT !.ran = @ \cup {"upload"}, !.tried = loc.mp3_path,
                                 !.sent = loc.mp3_path, !.text = "complete"]
       ELSE last' = Failed([last EXCEPT !.ran = @ \cup {"upload"},
                                        !.tried = loc.mp3_path])
    /\ pc' = "a_finally"
    /\ UNCHANGED << user_states, chats, files, now, ev, loc, queue, in_flight >>

\* download_audio's finally clause (lines 316-321); the handler returns.
a_finally ==
    /\ pc = "a_finally"
    /\ files' = files \ CleanupAudio(loc, files)
    /\ loc' = NoLocals
    /\ pc' = "idle"
    /\ in_flight' = in_flight \ {Op(ev.u, ev.m)}
    /\ UNCHANGED << user_states, chats, now, ev, last, queue >>

\* The indices a quality list can offer as res_<i> buttons.
Indices == 0..(Len(Catalog("a")) - 1)

Next ==
    \/ \E u \in Users, url \in Urls : handle_youtube_link(u, url)
    \/ \E u \in Users, m \in 1..MaxMsgs : choose_video(u, m)
    \/ \E u \in Users, m \in 1..MaxMsgs : choose_audio(u, m)
    \/ \E u \in Users, m \in 1..MaxMsgs : choose_back(u, m)
    \/ \E u \in Users, m \in 1..MaxMsgs, i \in Indices, t \in 0..MaxTime :
          handle_resolution_selection(u, m, i, t)
    \/ \E outcome \in DownloadOutcomes : v_prog(outcome)
    \/ \E outcome \in DownloadOutcomes : v_video(outcome)
    \/ \E outcome \in DownloadOutcomes : v_audio(outcome)
    \/ \E present \in BOOLEAN : v_probe(present)
    \/ \E outcome \in DownloadOutcomes : v_merge(outcome)
    \/ \E ok \in BOOLEAN : v_upload(ok)
    \/ v_finally
    \/ \E outcome \in DownloadOutcomes : a_download(outcome)
    \/ \E present \in BOOLEAN : a_probe(present)
    \/ \E outcome \in DownloadOutcomes : a_convert(outcome)
    \/ \E ok \in BOOLEAN : a_upload(ok)
    \/ a_finally

Spec == Init /\ [][Next]_vars

\* The dispatcher hands an update to its handler.
Dispatch ==
    \/ \E u \in Users, url \in Urls : handle_youtube_link(u, url)
    \/ \E u \in Users, m \in 1..MaxMsgs : choose_video(u, m)
    \/ \E u \in Users, m \in 1..MaxMsgs : choose_audio(u, m)
    \/ \E u \in Users, m \in 1..MaxMsgs : choose_back(u, m)
    \/ \E u \in Users, m \in 1..MaxMsgs, i \in Indices, t \in 0..MaxTime :
          handle_resolution_selection(u, m, i, t)

\* The steps of a running download operation: each is a call of a
\* collaborator (download, transcoder, upload, file removal) coming back.
Pipeline ==
    \/ \E outcome \in DownloadOutcomes : v_prog(outcome)
    \/ \E outcome \in DownloadOutcomes : v_video(outcome)
    \/ \E outcome \in DownloadOutcomes : v_audio(outcome)
    \/ \E present \in BOOLEAN : v_probe(present)
    \/ \E outcome \in DownloadOutcomes : v_merge(outcome)
    \/ \E ok \in BOOLEAN : v_upload(ok)
    \/ v_finally
    \/ \E outcome \in DownloadOutcomes : a_download(outcome)
    \/ \E present \in BOOLEAN : a_probe(present)
    \/ \E outcome \in DownloadOutcomes : a_convert(outcome)
    \/ \E ok \in BOOLEAN : a_upload(ok)
    \/ a_finally

\* Every collaborator call eventually returns or fails: a running operation
\* is not left waiting forever.  Users are under no obligation to send
\* anything.
FairSpec == Spec /\ WF_vars(Pipeline)

\* The same program with users who do not wait for the bot: updates arrive
\* while a handler is running.
AnyUpdate ==
    { Update(u, 0, "link", 0, url) : u \in Users, url \in Urls }
    \cup { Update(u, m, data, 0, "None") :
              u \in Users, m \in 1..MaxMsgs, data \in {"video", "audio", "back"} }
    \cup { Update(u, m, "res", i, "None") : u \in Users, m \in 1..MaxMsgs, i \in Indices }

NextQueued ==
    \/ Next
    \/ \E upd \in AnyUpdate : Arrive(upd)

SpecQueued == Init /\ [][NextQueued]_vars

\* ----------------------------------------------------------------- claims
Returned == pc = "idle" /\ ev # NoEvent

Operation == ev.data \in {"res", "audio"}

ErrorTexts == {"error", "failed"}

\* The stream descriptor a button stands for: the video and its encoding.
Shown(s) == [vid |-> s.h.vid, d |-> s.d]

\* C1: once a download operation has returned, no file it created in the
\* scratch directory still exists.
C1_NoFileLeft == (Returned /\ Operation) => last.made \cap files = {}

\* C2: tapping the button res_i of a quality list rendered in this run sets
\* selected_stream to the i-th stream of the list that message showed.
C2_SelectsShown ==
    (ev.data = "res" /\ last.selected /\ last.shown[1].h.id # 0)
        => Shown(Session(ev.u).selected_stream) = Shown(last.shown[ev.index + 1])

\* C3: a progressive selection never calls the transcoder (probe or merge);
\* a non-progressive one for which the transcoder answered the probe has
\* called the merge by the time download_video returns.
C3_TranscoderUse ==
    (ev.data = "res" /\ last.selected) =>
        LET sel == Session(ev.u).selected_stream
        IN  /\ is_progressive(sel) => last.ran \cap {"probe", "merge"} = {}
            /\ (~is_progressive(sel) /\ last.probe = "present" /\ Returned)
                   => "merge" \in last.ran

C3_Merged ==
    /\ Returned /\ ev.data = "res" /\ last.selected
    /\ ~is_progressive(Session(ev.u).selected_stream)
    /\ "merge" \in last.ran

\* The file an operation delivers when the transcoder is absent: the video
\* part, or the downloaded audio container.
FallbackFile ==
    IF ev.data = "res" THEN VideoFile("video_", ev.u, now)
    ELSE TitleFile("audio_", sanitize_filename(Title(Session(ev.u).yt.vid)), "mp4")

\* C4: when the probe finds no transcoder, the operation tells the user,
\* offers the fallback file (video part / audio container) to the upload, and
\* reports "Complete" with that file delivered unless the upload itself fails.
C4_Degrades ==
    (Returned /\ Operation /\ last.probe = "absent") =>
        /\ last.warned
        /\ "upload" \in last.ran
        /\ last.tried = FallbackFile
        /\ FallbackFile \in last.made
        /\ \/ last.text = "complete" /\ last.sent = FallbackFile
           \/ last.text = "failed" /\ last.sent = NoPath

C4_VideoOnlyDelivered ==
    /\ Returned /\ ev.data = "res" /\ last.probe = "absent"
    /\ last.text = "complete" /\ last.sent = FallbackFile

\* C5: a res_i whose index is out of range for the session's current
\* quality list, or that finds no media handle, shows an error text and
\* starts no download, transcode or upload and writes no file.
C5_RejectsSelection ==
    (ev.data = "res"
        /\ (last.pre.yt = NoHandle \/ ev.index >= Len(QualityList(last.pre.yt)))) =>
        /\ pc = "idle"
        /\ last.text = "error"
        /\ ~last.selected
        /\ last.ran = {} /\ last.made = {} /\ last.tried = NoPath
        /\ loc = NoLocals

C5_OutOfRange ==
    /\ ev.data = "res" /\ last.text = "error"
    /\ last.pre.yt # NoHandle
    /\ QualityList(last.pre.yt) # << >>
    /\ ev.index >= Len(QualityList(last.pre.yt))

\* C6: a failure raised while handling an event has produced a user-visible
\* error text (or the transcoder notice) for it when the handler returns.
C6_FailureShown ==
    (Returned /\ last.raised) => (last.text \in ErrorTexts \/ last.warned)

\* The links for which extraction fails: malformed, unreachable.
BrokenUrls == {"bad", "dead"}

\* C7: after a link for which extraction fails, no handler is running, the
\* status message shows the error with no choice buttons, and nothing was
\* downloaded, written or registered for cleanup.
C7_FailedLinkIdle ==
    (ev.data = "link" /\ Session(ev.u).url \in BrokenUrls) =>
        /\ pc = "idle"
        /\ last.text = "error"
        /\ chats[ev.u][ev.m].kb = "none"
        /\ last.ran = {} /\ last.made = {}
        /\ loc = NoLocals

C7_MalformedLink ==
    /\ ev.data = "link" /\ Session(ev.u).url = "bad"
    /\ last.raised /\ last.text = "error"

\* C8: when extraction of a submitted link fails, the session's media handle
\* and selected stream are what they were before the link.
C8_FailedLinkKeepsSession ==
    (ev.data = "link" /\ last.raised) =>
        /\ Session(ev.u).yt = last.pre.yt
        /\ Session(ev.u).selected_stream = last.pre.selected_stream

\* C9: "back" constructs no media handle, leaves the session as it found it
\* and, with a usable handle, shows the option prompt with its two buttons.
C9_BackRerenders ==
    ev.data = "back" =>
        /\ ~last.extracted
        /\ Session(ev.u) = last.pre
        /\ (last.pre.yt # NoHandle /\ ~Unreachable(last.pre.yt)) =>
               (last.text = "prompt" /\ chats[ev.u][ev.m].kb = "options")

C9_BackToPrompt ==
    /\ ev.data = "back" /\ last.text = "prompt"
    /\ chats[ev.u][ev.m].kb = "options"
    /\ Session(ev.u).yt # NoHandle

\* C10: in every session, selected_stream is absent or a stream of the
\* session's current media handle.
C10_SelectedOfCurrentHandle ==
    \A u \in DOMAIN user_states :
        \/ user_states[u].selected_stream = NoStream
        \/ user_states[u].selected_stream.h = user_states[u].yt

\* C11: at any time at most one download operation is in flight for a user:
\* a second request of the same user waits until the first has returned.
C11_OneOperationPerUser ==
    \A u \in Users : Cardinality({ o \in in_flight : o.u = u }) <= 1

\* An operation of a user is running and the same user's next download
\* request has arrived.
C11_SecondRequestWaits ==
    /\ queue # << >>
    /\ Head(queue).data \in {"audio", "res"}
    /\ \E o \in in_flight : o.u = Head(queue).u

\* C12: when a user has submitted a new link while an operation of theirs
\* was in flight, the operation has deleted every file it wrote by the time
\* it returns, and it has uploaded nothing after the session's media handle
\* was replaced.
C12_SupersededCleansUp ==
    ( /\ Returned /\ Operation
      /\ queue # << >>
      /\ Head(queue).data = "link" /\ Head(queue).u = ev.u )
    => /\ last.made \cap files = {}
       /\ last.sent # NoPath => Session(ev.u).yt = last.pre.yt

\* The positions at which a download operation is inside stream.download()
\* or a transcoder run.
BlockingSteps == {"v_prog", "v_video", "v_audio", "v_merge", "a_download", "a_convert"}

\* C13: while one user's operation is inside a download or a transcoder
\* step, a waiting update of another user can be dispatched to its handler.
C13_OthersServed ==
    ( /\ pc \in BlockingSteps
      /\ queue # << >>
      /\ Head(queue).u # ev.u )
    => ENABLED Dispatch

\* C14: cleanup is idempotent: with a path listed twice or a path whose file
\* is absent it raises nothing, and a second run over the same paths raises
\* nothing and leaves the directory as the first run left it.
C14_CleanupIdempotent ==
    /\ pc = "v_finally" =>
          LET once == FinallyVideo(loc, files)
              twice == FinallyVideo(loc, once.disk)
          IN  ~once.error /\ ~twice.error /\ twice.disk = once.disk
    /\ pc = "a_finally" =>
          LET once == FinallyAudio(loc, files)
              twice == FinallyAudio(loc, once.disk)
          IN  ~once.error /\ ~twice.error /\ twice.disk = once.disk
    /\ \A path \in {loc.download_path, loc.video_path, loc.audio_path, loc.mp3_path} :
          delete_file(path, delete_file(path, files)) = delete_file(path, files)

\* The cleanup is about to run on a list that names one existing file twice:
\* without a transcoder the final path is the video part.
C14_DuplicatePath ==
    /\ pc = "v_finally"
    /\ loc.download_path = loc.video_path
    /\ loc.video_path \in files

\* C15: at every point of a running operation, each file it has written so
\* far (a partial one included) is held by one of the variables its cleanup
\* goes through.
C15_WrittenIsRegistered ==
    pc # "idle" =>
        last.made \subseteq
            {loc.download_path, loc.video_path, loc.audio_path, loc.mp3_path}

\* C16: every delivered video is made of one selection: the merged audio
\* track comes from the media handle of the downloaded video stream, and the
\* caption shows that handle's title and that stream's resolution.
C16_OneSelectionDelivered ==
    last.delivery # NoDelivery =>
        LET d == last.delivery
        IN  /\ d.video # NoStream
            /\ d.audio # NoStream => d.audio.h = d.video.h
            /\ d.title = Title(d.video.h.vid)
            /\ d.res = d.video.d.res

\* A merged video has been delivered while an update of the same user,
\* sent during the operation, is waiting.
C16_MergedWhileUserActive ==
    /\ last.delivery # NoDelivery
    /\ last.delivery.audio # NoStream
    /\ queue # << >>
    /\ Head(queue).u = ev.u

C18_OthersUntouched ==
    [][ \A v \in DOMAIN user_states :
            /\ v \in DOMAIN user_states'
            /\ v # ev'.u => user_states'[v] = user_states[v] ]_vars

\* Both users have a session with a media handle, and the last update
\* handled was a link of user 1 that replaced user 1's handle.
C18_TwoSessions ==
    /\ DOMAIN user_states = Users
    /\ \A v \in Users : user_states[v].yt # NoHandle
    /\ ev.u = 1 /\ ev.data = "link"
    /\ last.pre.yt # user_states[1].yt

FinalTexts == {"complete", "failed"}

\* C19: a download operation that has started ends: the handler returns
\* with "Complete" or "Failed" as the last status text, its finally clause
\* has run and no operation is in flight.
C19_OperationEnds ==
    (pc # "idle") ~>
        (pc = "idle" /\ last.text \in FinalTexts /\ loc = NoLocals /\ in_flight = {})

\* An operation that went into its download has returned.
C19_Ended ==
    /\ Returned /\ Operation
    /\ "download" \in last.ran
    /\ last.text \in FinalTexts

\* C20: when download_audio found the transcoder available, it neither
\* shows the "not found" notice nor delivers the untranscoded container:
\* whatever it uploads is the converted file, and a conversion that errors
\* ends the operation as failed.
C20_FallbackOnlyWhenAbsent ==
    (Returned /\ ev.data = "audio" /\ last.probe = "present")
    => /\ ~last.warned
       /\ last.sent # NoPath => last.sent.ext = "mp3"

====
